---- MODULE Spec2Model ----
(***************************************************************************)
(* Model of api/blob.go of crypki: the three blob-signing handlers of      *)
(* SigningService (GetBlobAvailableSigningKeys, GetBlobSigningKey,         *)
(* PostSignBlob) and getSignerOpts.                                        *)
(*                                                                         *)
(* Every handler call is a process p.  A call runs its body up to the      *)
(* external Signer call, then the Signer call (whose outcome is chosen by  *)
(* the environment: a result, an error or a panic), then its two deferred  *)
(* functions in LIFO order: recoverIfPanicked first, the logging closure   *)
(* last.  Texts are sequences of one-character strings, byte slices are    *)
(* sequences of 0..255.  The elapsed-time field of the log record is left  *)
(* out: no handler reads it.                                               *)
(***************************************************************************)
EXTENDS Integers, Sequences, FiniteSets, TLC

VARIABLES
    KeyUsages,   \* s.KeyUsages: endpoint -> (identifier -> bool)
    calls,       \* the call each process makes (operation and argument)
    pc,          \* where each call stands
    statusCode,  \* the handler's local statusCode
    err,         \* the handler's local err, read by the logging closure
    ret,         \* the handler's result slots (response, error)
    panicking,   \* a panic is unwinding the handler's frame
    fault,       \* the value of the panic raised in the handler's body, if any
    signerInv,   \* the invocations of the external Signer each call made
    logs,        \* the structured log records each call emitted
    recoverLog,  \* the lines recoverIfPanicked logged for each call
    crashed      \* a panic left a handler unrecovered: the process is gone

vars == <<KeyUsages, calls, pc, statusCode, err, ret, panicking, fault,
          signerInv, logs, recoverLog, crashed>>

----------------------------------------------------------------------------
(* Bounds *)

NumProcs == 2        \* concurrent calls
MaxDigestLen == 2    \* every digest text up to this length is an input
MaxSigLen == 3       \* the Signer returns every prefix up to this length

Procs == 1..NumProcs

----------------------------------------------------------------------------
(* Program constants *)

StatusOK == 200
StatusCreated == 201
StatusBadRequest == 400
StatusInternalServerError == 500

BlobEndpoint == "blob"
X509Endpoint == "x509"

----------------------------------------------------------------------------
(* Texts and bytes *)

SeqsUpTo(S, n) == UNION {[1..k -> S] : k \in 0..n}

Perms(S) == {s \in [1..Cardinality(S) -> S] : \A a \in S : \E i \in DOMAIN s : s[i] = a}

\* fmt's %q of a string: the string between double quotes (as text pieces).
Quote(t) == <<"\"", t, "\"">>

----------------------------------------------------------------------------
(* encoding/base64, StdEncoding *)

Alphabet ==
    << "A","B","C","D","E","F","G","H","I","J","K","L","M","N","O","P",
       "Q","R","S","T","U","V","W","X","Y","Z","a","b","c","d","e","f",
       "g","h","i","j","k","l","m","n","o","p","q","r","s","t","u","v",
       "w","x","y","z","0","1","2","3","4","5","6","7","8","9","+","/" >>

PadChar == "="

IsAlpha(c) == \E i \in 1..64 : Alphabet[i] = c

B64Index(c) == (CHOOSE i \in 1..64 : Alphabet[i] = c) - 1

\* The decoder skips \r and \n wherever they stand.
StripNewlines(t) == SelectSeq(t, LAMBDA c : c \notin {"\n", "\r"})

\* A quantum of four characters: four alphabet characters, or, as the last
\* quantum only, two or three of them followed by padding.
QuantumBytes(q, last) ==
    IF \A i \in 1..4 : IsAlpha(q[i]) THEN 3
    ELSE IF last /\ IsAlpha(q[1]) /\ IsAlpha(q[2]) /\ IsAlpha(q[3]) /\ q[4] = PadChar THEN 2
    ELSE IF last /\ IsAlpha(q[1]) /\ IsAlpha(q[2]) /\ q[3] = PadChar /\ q[4] = PadChar THEN 1
    ELSE 0

QuantumValue(q) ==
    LET v(i) == IF IsAlpha(q[i]) THEN B64Index(q[i]) ELSE 0
    IN  v(1) * 262144 + v(2) * 4096 + v(3) * 64 + v(4)

DecodeCorrupt(t) ==
    LET s == StripNewlines(t)
        n == Len(s) \div 4
    IN  \/ Len(s) % 4 # 0
        \/ \E g \in 1..n : QuantumBytes(SubSeq(s, 4 * g - 3, 4 * g), g = n) = 0

DecodeBytes(t) ==
    LET s == StripNewlines(t)
        n == Len(s) \div 4
        q(g) == SubSeq(s, 4 * g - 3, 4 * g)
        len == IF n = 0 THEN 0 ELSE 3 * (n - 1) + QuantumBytes(q(n), TRUE)
        byte(k) ==
            LET v == QuantumValue(q(((k - 1) \div 3) + 1))
                j == (k - 1) % 3
            IN  IF j = 0 THEN v \div 65536
                ELSE IF j = 1 THEN (v \div 256) % 256
                ELSE v % 256
    IN  [k \in 1..len |-> byte(k)]

\* A nil error, and an error with its text.
NilError == [isNil |-> TRUE, text |-> <<>>]
Error(text) == [isNil |-> FALSE, text |-> text]

\* base64.StdEncoding.DecodeString.  The byte offset of CorruptInputError's
\* text is left out.
DecodeStringLenient(t) ==
    [bytes |-> DecodeBytes(SelectSeq(t, LAMBDA c : IsAlpha(c))), err |-> NilError]

DecodeString(t) ==
    IF DecodeCorrupt(t)
    THEN [bytes |-> <<>>, err |-> Error(<<"illegal base64 data at input byte">>)]
    ELSE [bytes |-> DecodeBytes(t), err |-> NilError]

EncodeChars(src, pad) ==
    LET n == Len(src)
        full == n \div 3
        rem == n % 3
        b(k) == IF k <= n THEN src[k] ELSE 0
        v(g) == b(3 * g - 2) * 65536 + b(3 * g - 1) * 256 + b(3 * g)
        groups == IF rem = 0 THEN full ELSE full + 1
        char(i) ==
            LET g == ((i - 1) \div 4) + 1
                j == (i - 1) % 4
                six == IF j = 0 THEN v(g) \div 262144
                       ELSE IF j = 1 THEN (v(g) \div 4096) % 64
                       ELSE IF j = 2 THEN (v(g) \div 64) % 64
                       ELSE v(g) % 64
            IN  IF g = groups /\ rem # 0 /\ j > rem THEN PadChar
                ELSE Alphabet[six + 1]
        len == IF pad \/ rem = 0 THEN 4 * groups ELSE 4 * full + rem + 1
    IN  [i \in 1..len |-> char(i)]

\* base64.StdEncoding.EncodeToString
EncodeToStringRaw(src) == EncodeChars(src, FALSE)

EncodeToString(src) == EncodeChars(src, TRUE)

----------------------------------------------------------------------------
(* getSignerOpts *)

getSignerOptsSwapped(hashAlgo) ==
    IF hashAlgo = "SHA224" THEN "crypto.SHA224"
    ELSE IF hashAlgo = "SHA256" THEN "crypto.SHA256"
    ELSE IF hashAlgo = "SHA384" THEN "crypto.SHA384"
    ELSE IF hashAlgo = "SHA512" THEN "crypto.SHA512"
    ELSE "crypto.SHA256"

getSignerOpts(hashAlgo) ==
    IF hashAlgo = "SHA224" THEN "crypto.SHA224"
    ELSE IF hashAlgo = "SHA256" THEN "crypto.SHA256"
    ELSE IF hashAlgo = "SHA384" THEN "crypto.SHA384"
    ELSE IF hashAlgo = "SHA512" THEN "crypto.SHA512"
    ELSE "crypto.SHA512"

----------------------------------------------------------------------------
(* Values *)

NilKeyMeta == [isNil |-> TRUE, Identifier |-> ""]
KeyMeta(id) == [isNil |-> FALSE, Identifier |-> id]

NilRequest == [isNil |-> TRUE, KeyMeta |-> NilKeyMeta, Digest |-> <<>>, HashAlgorithm |-> ""]
BlobSigningRequest(km, digest, hash) ==
    [isNil |-> FALSE, KeyMeta |-> km, Digest |-> digest, HashAlgorithm |-> hash]

\* request.GetDigest() is nil-safe; request.HashAlgorithm is a field read.
GetDigest(request) == IF request.isNil THEN <<>> ELSE request.Digest

NoCall == [op |-> "none", keyMeta |-> NilKeyMeta, request |-> NilRequest]
ListCall == [op |-> "GetBlobAvailableSigningKeys", keyMeta |-> NilKeyMeta, request |-> NilRequest]
GetCall(km) == [op |-> "GetBlobSigningKey", keyMeta |-> km, request |-> NilRequest]
PostCall(req) == [op |-> "PostSignBlob", keyMeta |-> NilKeyMeta, request |-> req]

\* fmt's %v of an error.
FormatV(e) == IF e.isNil THEN <<"<nil>">> ELSE e.text

\* grpc status errors.
NilStatus == [isNil |-> TRUE, code |-> "OK", message |-> <<>>]
StatusError(code, message) == [isNil |-> FALSE, code |-> code, message |-> message]

\* Responses.
NilResponse == [isNil |-> TRUE, kind |-> "nil", body |-> <<>>]
Response(kind, body) == [isNil |-> FALSE, kind |-> kind, body |-> body]

\* The result slots of a handler before any return statement ran.
ZeroRet == [resp |-> NilResponse, err |-> NilStatus]

\* return nil, status.Errorf(codes.InvalidArgument, "Bad request: %v", err)
BadRequest(e) ==
    [resp |-> NilResponse,
     err |-> StatusError("InvalidArgument", <<"Bad request: ">> \o FormatV(e))]

\* return nil, status.Error(codes.Internal, "Internal server error")
InternalErrorLeaky(e) ==
    [resp |-> NilResponse,
     err |-> StatusError("Internal", <<"Internal server error: ">> \o FormatV(e))]

InternalError(e) ==
    [resp |-> NilResponse,
     err |-> StatusError("Internal", <<"Internal server error">>)]

----------------------------------------------------------------------------
(* KeyUsages *)

\* s.KeyUsages[endpoint]: a missing endpoint reads as the nil map.
UsagesOf(endpoint) ==
    IF endpoint \in DOMAIN KeyUsages THEN KeyUsages[endpoint] ELSE <<>>

\* s.KeyUsages[config.BlobEndpoint][id]: a missing key reads as false.
IsAuthorizedAnyEndpoint(id) ==
    \E e \in DOMAIN KeyUsages : id \in DOMAIN KeyUsages[e] /\ KeyUsages[e][id]

IsAuthorized(id) ==
    LET m == UsagesOf(BlobEndpoint)
    IN  id \in DOMAIN m /\ m[id]

\* for id := range s.KeyUsages[config.BlobEndpoint]
RangeKeysAllEndpoints == UNION {DOMAIN KeyUsages[e] : e \in DOMAIN KeyUsages}

RangeKeys == DOMAIN UsagesOf(BlobEndpoint)

----------------------------------------------------------------------------
(* Inputs *)

KeyIds == {"", "key1", "key2"}

HashNames == {"", "Unspecified", "SHA1", "sha256", "SHA224", "SHA256", "SHA384", "SHA512"}

DigestChars == {"q", "=", "!", "\n"}

HelloText == <<"a","G","V","s","b","G","8","=">>
HelloBytes == <<104, 101, 108, 108, 111>>

DigestTexts ==
    SeqsUpTo(DigestChars, MaxDigestLen) \cup
    { <<"q","r","s","=">>, <<"q","r","t","=">>, <<"q","g","=","=">>,
      <<"q","r","s","q">>, HelloText, <<"q","\n","r","s","=">>,
      <<"q","r","s","=","\r","\n">>, <<"q","r","s">>, <<"q","g","=">>,
      <<"=","q","r","s">>, <<"q","g","=","=","q","r","s","=">>,
      <<"q","r","=","s">>, <<"q","=","=","=">>, <<"q","r","!","s">>,
      <<"q","g","=","\n","=">> }

SigStream == <<170, 187, 255, 0, 16, 131>>

SigBytes == {SubSeq(SigStream, 1, n) : n \in 0..MaxSigLen}

SignerErrors == { Error(<<"pkcs11: session closed">>), Error(<<"hsm: key not found">>) }

SignerPanic == "signer: index out of range"
NilDereference == "runtime error: invalid memory address or nil pointer dereference"

\* What a call of the external Signer can do: return bytes, return an
\* error, or panic.
SignerOutcomes ==
    {[kind |-> "ok", bytes |-> b, err |-> NilError] : b \in SigBytes} \cup
    {[kind |-> "err", bytes |-> <<>>, err |-> e] : e \in SignerErrors} \cup
    {[kind |-> "panic", bytes |-> <<>>, err |-> NilError]}

KeyMetas == {NilKeyMeta} \cup {KeyMeta(id) : id \in KeyIds}

Requests ==
    {NilRequest} \cup
    {BlobSigningRequest(km, d, h) : km \in KeyMetas, d \in DigestTexts, h \in HashNames}

AllCalls ==
    {ListCall} \cup {GetCall(km) : km \in KeyMetas} \cup {PostCall(r) : r \in Requests}

\* The calls of the concurrent specification.
ConcCalls ==
    { ListCall, GetCall(NilKeyMeta), GetCall(KeyMeta("key1")), GetCall(KeyMeta("key2")),
      PostCall(NilRequest),
      PostCall(BlobSigningRequest(NilKeyMeta, <<"q","r","s","=">>, "SHA256")),
      PostCall(BlobSigningRequest(KeyMeta("key1"), <<"q","r","s","=">>, "SHA256")),
      PostCall(BlobSigningRequest(KeyMeta("key1"), <<"q","r","s">>, "SHA256")),
      PostCall(BlobSigningRequest(KeyMeta("key2"), <<"q","r","s","=">>, "SHA384")) }

\* The usage tables: built once at startup from the configured identifiers
\* of each endpoint, every configured identifier mapped to true.
UsageMap(ids) == [id \in ids |-> TRUE]

Tables ==
    {[e \in {X509Endpoint} |-> UsageMap({"key2"})]} \cup
    {[e \in {BlobEndpoint, X509Endpoint} |->
        IF e = BlobEndpoint THEN UsageMap(ids) ELSE UsageMap({"key2"})] :
      ids \in SUBSET {"", "key1"}}

ConcTables ==
    {[e \in {BlobEndpoint, X509Endpoint} |->
        IF e = BlobEndpoint THEN UsageMap({"key1"}) ELSE UsageMap({"key2"})]}

----------------------------------------------------------------------------
(* Initial states *)

InitLocals ==
    /\ pc = [p \in Procs |-> IF calls[p] = NoCall THEN "idle" ELSE "start"]
    /\ statusCode = [p \in Procs |-> 0]
    /\ err = [p \in Procs |-> NilError]
    /\ ret = [p \in Procs |-> ZeroRet]
    /\ panicking = [p \in Procs |-> FALSE]
    /\ fault = [p \in Procs |-> ""]
    /\ signerInv = [p \in Procs |-> <<>>]
    /\ logs = [p \in Procs |-> <<>>]
    /\ recoverLog = [p \in Procs |-> <<>>]
    /\ crashed = FALSE

\* One call, every table and every input.
Init ==
    /\ KeyUsages \in Tables
    /\ calls \in {[p \in Procs |-> IF p = 1 THEN c ELSE NoCall] : c \in AllCalls}
    /\ InitLocals

\* One call per process, all in flight together.
InitConc ==
    /\ KeyUsages \in ConcTables
    /\ calls \in [Procs -> ConcCalls]
    /\ InitLocals

----------------------------------------------------------------------------
(* The handlers *)

Running(p, at, op) == ~crashed /\ pc[p] = at /\ calls[p].op = op

\* Leaving the body by a return statement: the deferred functions run next.
Return(p, code, e, r) ==
    /\ statusCode' = [statusCode EXCEPT ![p] = code]
    /\ err' = [err EXCEPT ![p] = e]
    /\ ret' = [ret EXCEPT ![p] = r]
    /\ pc' = [pc EXCEPT ![p] = "deferRecover"]
    /\ UNCHANGED <<panicking, fault>>

\* Leaving the body by a panic: no return statement ran, the result slots
\* keep their zero values, and the deferred functions run next.
Panic(p, code, e, value) ==
    /\ statusCode' = [statusCode EXCEPT ![p] = code]
    /\ err' = [err EXCEPT ![p] = e]
    /\ panicking' = [panicking EXCEPT ![p] = TRUE]
    /\ fault' = [fault EXCEPT ![p] = value]
    /\ pc' = [pc EXCEPT ![p] = "deferRecover"]
    /\ UNCHANGED ret

\* Reaching the call of the external Signer.
ReachSigner(p, code) ==
    /\ statusCode' = [statusCode EXCEPT ![p] = code]
    /\ pc' = [pc EXCEPT ![p] = "signer"]
    /\ UNCHANGED <<err, ret, panicking, fault>>

GetBlobAvailableSigningKeys(p) ==
    /\ Running(p, "start", "GetBlobAvailableSigningKeys")
    /\ \E keys \in Perms(RangeKeys) :
          Return(p, StatusOK, NilError,
                 [resp |-> Response("KeyMetas", keys), err |-> NilStatus])
    /\ UNCHANGED <<KeyUsages, calls, signerInv, logs, recoverLog, crashed>>

GetBlobSigningKey(p) ==
    LET keyMeta == calls[p].keyMeta
        noKeyMeta == Error(<<"keyMeta is empty for ">> \o Quote(BlobEndpoint))
        cannotUse == Error(<<"cannot use key ">> \o Quote(keyMeta.Identifier)
                           \o <<" for ">> \o Quote(BlobEndpoint))
    IN  /\ Running(p, "start", "GetBlobSigningKey")
        /\ IF keyMeta.isNil
           THEN Return(p, StatusBadRequest, noKeyMeta, BadRequest(noKeyMeta))
           ELSE IF ~IsAuthorized(keyMeta.Identifier)
           THEN Return(p, StatusBadRequest, cannotUse, BadRequest(cannotUse))
           ELSE ReachSigner(p, StatusOK)
        /\ UNCHANGED <<KeyUsages, calls, signerInv, logs, recoverLog, crashed>>

\* key, err := s.GetBlobSigningPublicKey(keyMeta.Identifier) and what follows.
GetBlobSigningPublicKey(p) ==
    /\ Running(p, "signer", "GetBlobSigningKey")
    /\ \E out \in SignerOutcomes :
          /\ signerInv' = [signerInv EXCEPT ![p] = Append(@,
                [fn |-> "GetPublicKey", digest |-> <<>>, opts |-> "",
                 id |-> calls[p].keyMeta.Identifier, out |-> out])]
          /\ IF out.kind = "panic"
             THEN Panic(p, statusCode[p], err[p], SignerPanic)
             ELSE IF out.kind = "err"
             THEN Return(p, StatusInternalServerError, out.err, InternalError(out.err))
             ELSE Return(p, statusCode[p], NilError,
                         [resp |-> Response("PublicKey", out.bytes), err |-> NilStatus])
    /\ UNCHANGED <<KeyUsages, calls, logs, recoverLog, crashed>>

PostSignBlob(p) ==
    LET request == calls[p].request
        noKeyMeta == Error(<<"request.keyMeta is empty for ">> \o Quote(BlobEndpoint))
        cannotUse == Error(<<"cannot use key ">> \o Quote(request.KeyMeta.Identifier)
                           \o <<" for ">> \o Quote(BlobEndpoint))
        decoded == DecodeString(GetDigest(request))
    IN  /\ Running(p, "start", "PostSignBlob")
        /\ IF request.isNil
           THEN Panic(p, StatusCreated, NilError, NilDereference)
           ELSE IF request.KeyMeta.isNil
           THEN Return(p, StatusBadRequest, noKeyMeta, BadRequest(noKeyMeta))
           ELSE IF ~IsAuthorized(request.KeyMeta.Identifier)
           THEN Return(p, StatusBadRequest, cannotUse, BadRequest(cannotUse))
           ELSE IF ~decoded.err.isNil
           THEN Return(p, StatusBadRequest, decoded.err, BadRequest(decoded.err))
           ELSE ReachSigner(p, StatusCreated)
        /\ UNCHANGED <<KeyUsages, calls, signerInv, logs, recoverLog, crashed>>

\* signature, err := s.Sign(digest, signerOpts, request.KeyMeta.Identifier)
\* and what follows.
Sign(p) ==
    LET request == calls[p].request
        digest == DecodeString(GetDigest(request)).bytes
        signerOpts == getSignerOpts(request.HashAlgorithm)
    IN  /\ Running(p, "signer", "PostSignBlob")
        /\ \E out \in SignerOutcomes :
              /\ signerInv' = [signerInv EXCEPT ![p] = Append(@,
                    [fn |-> "Sign", digest |-> digest, opts |-> signerOpts,
                     id |-> request.KeyMeta.Identifier, out |-> out])]
              /\ IF out.kind = "panic"
                 THEN Panic(p, statusCode[p], err[p], SignerPanic)
                 ELSE IF out.kind = "err"
                 THEN Return(p, StatusInternalServerError, out.err, InternalError(out.err))
                 ELSE Return(p, statusCode[p], NilError,
                             [resp |-> Response("Signature", EncodeToString(out.bytes)),
                              err |-> NilStatus])
        /\ UNCHANGED <<KeyUsages, calls, logs, recoverLog, crashed>>

\* defer recoverIfPanicked(methodName): stops a panic and logs its value.
\* It gets the method name alone, so it changes neither the handler's
\* statusCode and err nor its (unnamed) result slots.
recoverIfPanicked(p) ==
    /\ ~crashed
    /\ pc[p] = "deferRecover"
    /\ IF panicking[p]
       THEN /\ panicking' = [panicking EXCEPT ![p] = FALSE]
            /\ recoverLog' = [recoverLog EXCEPT ![p] =
                  Append(@, [m |-> calls[p].op, panic |-> fault[p]])]
       ELSE UNCHANGED <<panicking, recoverLog>>
    /\ pc' = [pc EXCEPT ![p] = "deferLog"]
    /\ UNCHANGED <<KeyUsages, calls, statusCode, err, ret, fault, signerInv, logs, crashed>>

\* The record the deferred closure prints.
LogRecord(p) ==
    IF calls[p].op = "PostSignBlob"
    THEN [m |-> calls[p].op, digest |-> GetDigest(calls[p].request),
          hash |-> calls[p].request.HashAlgorithm,
          st |-> statusCode[p], err |-> FormatV(err[p])]
    ELSE [m |-> calls[p].op, st |-> statusCode[p], err |-> FormatV(err[p])]

\* defer func() { log.Printf(...) }(): the last deferred function to run.
\* In PostSignBlob its arguments read request.HashAlgorithm, a nil
\* dereference when the request is nil: a panic nothing recovers.
deferredLog(p) ==
    /\ ~crashed
    /\ pc[p] = "deferLog"
    /\ IF calls[p].op = "PostSignBlob" /\ calls[p].request.isNil
       THEN /\ crashed' = TRUE
            /\ pc' = [pc EXCEPT ![p] = "panicked"]
            /\ UNCHANGED logs
       ELSE /\ logs' = [logs EXCEPT ![p] = Append(@, LogRecord(p))]
            /\ crashed' = panicking[p]
            /\ pc' = [pc EXCEPT ![p] = IF panicking[p] THEN "panicked" ELSE "done"]
    /\ UNCHANGED <<KeyUsages, calls, statusCode, err, ret, panicking, fault,
                   signerInv, recoverLog>>

Next ==
    \E p \in Procs :
        \/ GetBlobAvailableSigningKeys(p)
        \/ GetBlobSigningKey(p)
        \/ GetBlobSigningPublicKey(p)
        \/ PostSignBlob(p)
        \/ Sign(p)
        \/ recoverIfPanicked(p)
        \/ deferredLog(p)

Spec == Init /\ [][Next]_vars

SpecConc == InitConc /\ [][Next]_vars

----------------------------------------------------------------------------
(* Vocabulary of the properties *)

Range(f) == {f[i] : i \in DOMAIN f}

\* id is in the set KeyUsages[blob].
InBlobTable(id) ==
    /\ BlobEndpoint \in DOMAIN KeyUsages
    /\ id \in DOMAIN KeyUsages[BlobEndpoint]
    /\ KeyUsages[BlobEndpoint][id] = TRUE

IsGet(p) == calls[p].op = "GetBlobSigningKey"
IsPost(p) == calls[p].op = "PostSignBlob"
IsList(p) == calls[p].op = "GetBlobAvailableSigningKeys"

\* The keyMeta a call carries, if its request is there at all.
HasRequest(p) == IsGet(p) \/ (IsPost(p) /\ ~calls[p].request.isNil)
CallKeyMeta(p) == IF IsGet(p) THEN calls[p].keyMeta ELSE calls[p].request.KeyMeta
HasIdentifier(p) == HasRequest(p) /\ ~CallKeyMeta(p).isNil
CallId(p) == CallKeyMeta(p).Identifier

\* The handler left its body by a return statement or a panic.
Returned(p) == pc[p] \in {"deferRecover", "deferLog", "done"}
\* The call is over: its caller has the result.
Done(p) == pc[p] = "done"
\* The call is over, one way or the other.
Over(p) == pc[p] \in {"done", "panicked"}

InvalidArgument(p) ==
    /\ ret[p].resp.isNil
    /\ ~ret[p].err.isNil
    /\ ret[p].err.code = "InvalidArgument"

\* Standard padded base64, stated on the whole text: without its line
\* breaks it is a multiple of four long, and it is alphabet characters
\* followed by at most two padding characters.
IsStdBase64(t) ==
    LET s == SelectSeq(t, LAMBDA c : c # "\n" /\ c # "\r")
        n == Len(s)
    IN  /\ n % 4 = 0
        /\ \E pad \in 0..2 :
              /\ pad <= n
              /\ \A i \in 1..(n - pad) : \E k \in 1..64 : Alphabet[k] = s[i]
              /\ \A i \in (n - pad + 1)..n : s[i] = "="

Descriptors == {"crypto.SHA224", "crypto.SHA256", "crypto.SHA384", "crypto.SHA512"}

Recognized ==
    [n \in {"SHA224", "SHA256", "SHA384", "SHA512"} |->
        CASE n = "SHA224" -> "crypto.SHA224"
          [] n = "SHA256" -> "crypto.SHA256"
          [] n = "SHA384" -> "crypto.SHA384"
          [] n = "SHA512" -> "crypto.SHA512"]

ExpectedOpts(name) ==
    IF name \in DOMAIN Recognized THEN Recognized[name] ELSE "crypto.SHA512"

GenericInternal == StatusError("Internal", <<"Internal server error">>)

SignerFailed(p) ==
    /\ signerInv[p] # <<>>
    /\ signerInv[p][Len(signerInv[p])].out.kind = "err"

----------------------------------------------------------------------------
(* C1 *)

\* C1: in every state of every interleaving of concurrent calls, the Signer
\* has only been invoked with identifiers in KeyUsages[blob], and a call
\* whose identifier is not in KeyUsages[blob] never invokes the Signer and
\* returns invalid-argument.
C1_SignerOnlyForAuthorized ==
    \A p \in Procs :
        /\ \A i \in DOMAIN signerInv[p] : InBlobTable(signerInv[p][i].id)
        /\ (HasIdentifier(p) /\ ~InBlobTable(CallId(p))) =>
              /\ signerInv[p] = <<>>
              /\ pc[p] # "signer"
              /\ Returned(p) => InvalidArgument(p)
              /\ ~panicking[p]

\* A call with an unauthorized identifier has ended while another call
\* has invoked the Signer and has not ended yet.
C1_Witness ==
    \E p \in Procs, q \in Procs :
        /\ p # q
        /\ Done(p) /\ HasIdentifier(p) /\ ~InBlobTable(CallId(p))
        /\ InvalidArgument(p)
        /\ signerInv[q] # <<>> /\ pc[q] = "deferRecover"

----------------------------------------------------------------------------
(* C2 *)

\* C2: a call during which a panic arose ends by returning an internal
\* status error, and no panic ends the process.
C2_FaultReturnsInternal ==
    /\ ~crashed
    /\ \A p \in Procs :
          (Done(p) /\ fault[p] # "") =>
              /\ ~ret[p].err.isNil
              /\ ret[p].err.code = "Internal"

----------------------------------------------------------------------------
(* C3 *)

\* C3: when the Signer returns an error to an authorized, valid call, the
\* caller gets the internal status with the one generic message, whatever
\* the error was: no piece of the error's text is in the message.
C3_SignerFailureIsOpaque ==
    \A p \in Procs :
        (Returned(p) /\ SignerFailed(p)) =>
            /\ ret[p].resp.isNil
            /\ ret[p].err = GenericInternal
            /\ \A e \in SignerErrors :
                  Range(e.text) \cap Range(ret[p].err.message) = {}

\* A PostSignBlob call has ended on a Signer error.
C3_Witness ==
    \E p \in Procs :
        /\ Done(p) /\ IsPost(p) /\ SignerFailed(p)
        /\ signerInv[p][1].out.err = Error(<<"hsm: key not found">>)
        /\ ret[p].err.code = "Internal"

----------------------------------------------------------------------------
(* C4 *)

\* C4: every call emits exactly one structured log record before it ends,
\* never zero and never two, a call with an absent request included.
C4_ExactlyOneLogRecord ==
    \A p \in Procs :
        /\ Len(logs[p]) <= 1
        /\ Over(p) => Len(logs[p]) = 1

----------------------------------------------------------------------------
(* C5 *)

\* C5: a PostSignBlob request whose digest is not valid base64 never
\* reaches the Signer and returns invalid-argument, keyMeta present or
\* not, identifier authorized or not.
C5_BadDigestRejected ==
    \A p \in Procs :
        (IsPost(p) /\ HasRequest(p) /\ ~IsStdBase64(calls[p].request.Digest)) =>
            /\ signerInv[p] = <<>>
            /\ pc[p] # "signer"
            /\ Returned(p) => InvalidArgument(p)
            /\ Over(p) => Done(p)

\* An authorized call with a keyMeta and a digest that lacks its padding
\* has ended with the decoder's error.
C5_Witness ==
    \E p \in Procs :
        /\ Done(p) /\ IsPost(p) /\ HasIdentifier(p) /\ InBlobTable(CallId(p))
        /\ calls[p].request.Digest = <<"q","r","s">>
        /\ InvalidArgument(p)
        /\ signerInv[p] = <<>>

----------------------------------------------------------------------------
(* C6 *)

\* C6: GetBlobSigningKey and PostSignBlob fail with a validation error,
\* before the authorization check and without invoking the Signer, when
\* the keyMeta is missing or its identifier is empty.
C6_EmptyIdentifierIsValidationError ==
    \A p \in Procs :
        (HasRequest(p) /\ (CallKeyMeta(p).isNil \/ CallId(p) = "")) =>
            /\ signerInv[p] = <<>>
            /\ pc[p] # "signer"
            /\ Returned(p) =>
                  /\ InvalidArgument(p)
                  /\ ~err[p].isNil
                  /\ err[p].text[1] \in {"keyMeta is empty for ", "request.keyMeta is empty for "}

----------------------------------------------------------------------------
(* C7 *)

\* C7: a PostSignBlob call with a keyMeta, an authorized identifier and a
\* valid digest invokes the Signer exactly once, with the decoded digest,
\* the descriptor of the request's hash name and the request's identifier;
\* when the Signer succeeds the response is a success whose signature
\* decodes to exactly the bytes the Signer returned.
C7_SignOnceAndEncode ==
    \A p \in Procs :
        (/\ IsPost(p) /\ HasIdentifier(p) /\ InBlobTable(CallId(p))
         /\ IsStdBase64(calls[p].request.Digest)) =>
            /\ pc[p] \in {"start", "signer"} => signerInv[p] = <<>>
            /\ Returned(p) =>
                  /\ Len(signerInv[p]) = 1
                  /\ LET inv == signerInv[p][1]
                         req == calls[p].request
                     IN  /\ inv.fn = "Sign"
                         /\ inv.id = req.KeyMeta.Identifier
                         /\ inv.opts = ExpectedOpts(req.HashAlgorithm)
                         /\ inv.digest = DecodeBytes(req.Digest)
                         /\ req.Digest = HelloText => inv.digest = HelloBytes
                         /\ req.Digest = <<"q","r","s","=">> => inv.digest = <<170, 187>>
                         /\ req.Digest = <<>> => inv.digest = <<>>
                         /\ inv.out.kind = "ok" =>
                               /\ ret[p].err.isNil
                               /\ ~ret[p].resp.isNil
                               /\ ret[p].resp.kind = "Signature"
                               /\ IsStdBase64(ret[p].resp.body)
                               /\ DecodeBytes(ret[p].resp.body) = inv.out.bytes
                               /\ inv.out.bytes = <<170, 187>> =>
                                     ret[p].resp.body = <<"q","r","s","=">>

\* The spec's scenario: digest "aGVsbG8=", SHA256, the Signer returns
\* [0xAA, 0xBB], the response is "qrs=".
C7_Witness ==
    \E p \in Procs :
        /\ Done(p) /\ IsPost(p) /\ HasIdentifier(p)
        /\ calls[p].request.Digest = HelloText
        /\ calls[p].request.HashAlgorithm = "SHA256"
        /\ Len(signerInv[p]) = 1
        /\ signerInv[p][1].digest = HelloBytes
        /\ signerInv[p][1].out.kind = "ok"
        /\ signerInv[p][1].out.bytes = <<170, 187>>
        /\ ret[p].resp.body = <<"q","r","s","=">>

----------------------------------------------------------------------------
(* C8 *)

\* C8: GetBlobAvailableSigningKeys always succeeds and returns, as a set,
\* exactly KeyUsages[blob]: the identifiers the authorization check of the
\* other two handlers accepts; no entries, the empty set.
C8_ListIsTheAuthorizedSet ==
    \A p \in Procs :
        IsList(p) =>
            /\ ~panicking[p] /\ fault[p] = ""
            /\ Returned(p) =>
                  /\ ret[p].err.isNil
                  /\ ~ret[p].resp.isNil
                  /\ statusCode[p] = StatusOK
                  /\ Range(ret[p].resp.body) = {id \in KeyIds : InBlobTable(id)}
                  /\ \A id \in KeyIds : id \in Range(ret[p].resp.body) <=> IsAuthorized(id)
                  /\ BlobEndpoint \notin DOMAIN KeyUsages => ret[p].resp.body = <<>>

\* A listing of a table of two identifiers has ended.
C8_Witness ==
    \E p \in Procs :
        /\ Done(p) /\ IsList(p)
        /\ Range(ret[p].resp.body) = {"", "key1"}
        /\ X509Endpoint \in DOMAIN KeyUsages

----------------------------------------------------------------------------
(* C9 *)

\* C9: getSignerOpts is total: every name resolves to one of the four
\* descriptors, each recognized name to its own, every other name (the
\* empty one too) to SHA512, and no name stops the call before the Signer.
C9_HashResolutionTotal ==
    \A p \in Procs :
        /\ \A i \in DOMAIN signerInv[p] :
              signerInv[p][i].fn = "Sign" =>
                  /\ signerInv[p][i].opts \in Descriptors
                  /\ signerInv[p][i].opts = ExpectedOpts(calls[p].request.HashAlgorithm)
        /\ (/\ IsPost(p) /\ HasIdentifier(p) /\ InBlobTable(CallId(p))
            /\ IsStdBase64(calls[p].request.Digest) /\ Returned(p)) =>
                  signerInv[p] # <<>>

\* The empty name has reached the Signer as SHA512.
C9_Witness ==
    \E p \in Procs :
        /\ IsPost(p) /\ HasRequest(p)
        /\ calls[p].request.HashAlgorithm = ""
        /\ signerInv[p] # <<>>
        /\ signerInv[p][1].opts = "crypto.SHA512"

----------------------------------------------------------------------------
(* C10 *)

\* The text the log prints for no error.
NoErrorText == FormatV(NilError)

\* C10: the status class of the log record of GetBlobSigningKey and
\* PostSignBlob agrees with what the caller got: success for a normal
\* return, bad request for an invalid-argument error, internal for a
\* Signer error and for a panic; the logged error is the empty one exactly
\* on success, and for a Signer error or a panic it is the real detail.
C10_LogAgreesWithOutcome ==
    \A p \in Procs :
        (Done(p) /\ ~IsList(p) /\ Len(logs[p]) = 1) =>
            LET rec == logs[p][1]
                success == fault[p] = "" /\ ret[p].err.isNil
            IN  /\ success => rec.st \in {StatusOK, StatusCreated}
                /\ (rec.err = NoErrorText) <=> success
                /\ (~ret[p].err.isNil /\ ret[p].err.code = "InvalidArgument") =>
                      rec.st = StatusBadRequest
                /\ SignerFailed(p) =>
                      /\ rec.st = StatusInternalServerError
                      /\ rec.err = signerInv[p][1].out.err.text
                /\ fault[p] # "" =>
                      /\ rec.st = StatusInternalServerError
                      /\ fault[p] \in Range(rec.err)

====
